---- MODULE Spec2Model ----
(***************************************************************************)
(* Model of ReportEngine/utils/dependency_check.py: the Pango dependency   *)
(* check used before PDF export.                                           *)
(*                                                                         *)
(* Text is modelled character by character on TLA+ strings (Len, SubSeq,   *)
(* Head, Tail and \o act on them as on sequences of one-character          *)
(* strings).  The module is ASCII, so the non-ASCII literals of the        *)
(* diagnostic messages (box-drawing characters, Chinese text, emoji) are   *)
(* transliterated; every ASCII word of the literals the properties look    *)
(* at ("GTK", "pip install weasyprint", ...) is kept.                      *)
(*                                                                         *)
(* An optional value (str | None) is a sequence: <<>> is None, <<s>> is s. *)
(***************************************************************************)
EXTENDS Integers, Sequences, FiniteSets, TLC

VARIABLES
    system,      \* platform.system()
    fs,          \* the filesystem: directory -> kind
    env,         \* os.environ: variable -> optional string
    dllDirs,     \* directories registered with os.add_dll_directory
    loader,      \* what importing the binding and loading Pango meet
    registers,   \* whether os.add_dll_directory exists and succeeds
    resolvable,  \* the names ctypes.util.find_library resolves
    history,     \* one record per completed call, oldest first
    last,        \* the most recent call, with its inputs and outputs
    pathTable    \* PathFacts of the known strings (see PathTable)

vars ==
    <<system, fs, env, dllDirs, loader, registers, resolvable, history, last,
      pathTable>>

\* ------------------------------------------------------------ bounds
\* Number of calls made in one process.
MaxCalls == 2

\* ------------------------------------------------------------ strings
None == <<>>
Some(s) == <<s>>
IsNone(o) == o = <<>>

Char(s, i) == SubSeq(s, i, i)

UpperAlpha == "ABCDEFGHIJKLMNOPQRSTUVWXYZ"
LowerAlpha == "abcdefghijklmnopqrstuvwxyz"

LowerOf == [i \in 1..26 |-> Char(LowerAlpha, i)]
UpperSet == {Char(UpperAlpha, i) : i \in 1..26}
UpperIndex == [c \in UpperSet |-> CHOOSE i \in 1..26 : Char(UpperAlpha, i) = c]

\* str.lower() on one character.
LowerChar(c) == IF c \in UpperSet THEN LowerOf[UpperIndex[c]] ELSE c

\* sub in s
Contains(sub, s) ==
    \E i \in 1..(Len(s) - Len(sub) + 1) : SubSeq(s, i, i + Len(sub) - 1) = sub

StartsWith(pre, s) == Len(pre) <= Len(s) /\ SubSeq(s, 1, Len(pre)) = pre
EndsWith(suf, s) ==
    Len(suf) <= Len(s) /\ SubSeq(s, Len(s) - Len(suf) + 1, Len(s)) = suf

RECURSIVE SplitFrom(_, _, _)
SplitFrom(s, sep, cur) ==
    IF s = "" THEN <<cur>>
    ELSE IF Head(s) = sep THEN <<cur>> \o SplitFrom(Tail(s), sep, "")
    ELSE SplitFrom(Tail(s), sep, cur \o Head(s))

\* str.split(sep) for a one-character separator: "".split(";") is [""].
Split(s, sep) == SplitFrom(s, sep, "")

RECURSIVE Join(_, _)
\* sep.join(parts)
Join(parts, sep) ==
    IF parts = <<>> THEN ""
    ELSE IF Len(parts) = 1 THEN parts[1]
    ELSE parts[1] \o sep \o Join(Tail(parts), sep)

Elems(seq) == {seq[i] : i \in 1..Len(seq)}

RECURSIVE Spaces(_)
Spaces(n) == IF n <= 0 THEN "" ELSE " " \o Spaces(n - 1)

\* format(s, "<n"): left-justify in a field of n characters.
PadRight(s, n) == s \o Spaces(n - Len(s))

\* ------------------------------------------------------------ platform
Systems == {"Windows", "Darwin", "Linux", "FreeBSD"}

\* The environment variables the module reads.
EnvVars ==
    {"GTK3_RUNTIME_PATH", "GTK_RUNTIME_PATH", "GTK_BIN_PATH", "GTK_BIN_DIR",
     "GTK_PATH", "ProgramFiles", "ProgramFiles(x86)", "PATH",
     "DYLD_LIBRARY_PATH"}

\* os.environ.get(name): None when unset.
EnvGet(e, name) == e[name]
\* os.environ.get(name, default)
EnvGetOr(e, name, default) == IF IsNone(e[name]) THEN default ELSE e[name][1]

\* ------------------------------------------------------------ filesystem
\* The directories a modelled host may hold, by their on-disk spelling.
ProgFiles == "C:\\Program Files"
ProgFilesX86 == "C:\\Program Files (x86)"
GtkRoot == "C:\\Program Files\\GTK3-Runtime Win64"
GtkBin == "C:\\Program Files\\GTK3-Runtime Win64\\bin"
GtkSharp == "C:\\Program Files\\GTKsharp"
SemiBin == "C:\\my;gtk\\bin"
ToolsPango == "D:\\tools\\pango"
WinDir == "C:\\Windows"
Homebrew == "/opt/homebrew/lib"
UsrLocal == "/usr/local/lib"
CustomLib == "/custom/lib"
UsrLib == "/usr/lib"

AllDirs ==
    <<ProgFiles, ProgFilesX86, GtkRoot, GtkBin, GtkSharp, SemiBin, ToolsPango,
      WinDir, Homebrew, UsrLocal, CustomLib, UsrLib>>

\* ------------------------------------------------------------ inputs
\* The values the modelled hosts give to the variables the module reads.
AliasRoot == "c:/program files/gtk3-runtime win64/"
PathPlain == "C:\\Windows"
PathWithTools == "C:\\Windows;D:\\tools\\pango"
PathWithGtk == "C:\\Program Files\\GTK3-Runtime Win64\\bin;C:\\Windows"
DyldCustom == "/usr/local/lib:/custom/lib"

\* ------------------------------------------------------------ str.lower
RECURSIVE LowerRec(_)
\* str.lower(), character by character.
LowerRec(s) == IF s = "" THEN "" ELSE LowerChar(Head(s)) \o LowerRec(Tail(s))

RECURSIVE BackSlashes(_)
\* "/" is an alternative separator of a Windows path.
BackSlashes(s) ==
    IF s = "" THEN ""
    ELSE (IF Head(s) = "/" THEN "\\" ELSE Head(s)) \o BackSlashes(Tail(s))

IsPart(x) == x # "" /\ x # "."
IsDrive(x) == Len(x) = 2 /\ SubSeq(x, 2, 2) = ":"

\* str(Path(s)) for a Windows path: separators normalised, repeated and
\* trailing separators and "." parts dropped.
WinPathRec(s) ==
    LET ps == Split(BackSlashes(s), "\\")
    IN  IF IsDrive(ps[1])
        THEN IF Len(ps) = 1 THEN ps[1]
             ELSE ps[1] \o "\\" \o Join(SelectSeq(Tail(ps), IsPart), "\\")
        ELSE Join(SelectSeq(ps, IsPart), "\\")

common_drives == <<"C", "D", "E", "F">>
common_names == <<"GTK3-Runtime Win64", "GTK3-Runtime Win32", "GTK3-Runtime">>

\* str.lower()
Lower(s) == LowerRec(s)
\* str(Path(s))
WinPath(s) == WinPathRec(s)
\* Path.parts, without the separators
Parts(s) == Split(s, "\\")

\* ------------------------------------------------------------ pathlib (Windows)
\* p / name
PathJoin(p, name) == WinPath(p \o "\\" \o name)

\* Path.name: the last part ("" for a drive root).
PathName(p) == LET ps == Parts(p) IN ps[Len(ps)]

\* Path.parent, as far as the glob of a directory's children needs it.
PathParent(p) ==
    LET ps == Parts(p) IN Join(SubSeq(ps, 1, Len(ps) - 1), "\\")

\* What _add_candidate derives from its argument before it looks at the
\* filesystem: p = Path(path_like), p / "bin", and their lower-case spellings.
PathFactsOf(p, bin) ==
    [p |-> p, lower |-> Lower(p), name |-> Lower(PathName(p)),
     parent |-> Lower(PathParent(p)), bin |-> bin, binlower |-> Lower(bin)]

PathFacts(s) == PathFactsOf(WinPath(s), PathJoin(WinPath(s), "bin"))

RECURSIVE DriveDirs(_, _)
\* For each drive and each name: root / name, root / "DevelopSoftware" / name.
DriveDirs(d, n) ==
    IF d > Len(common_drives) THEN <<>>
    ELSE IF n > Len(common_names) THEN DriveDirs(d + 1, 1)
    ELSE LET root == WinPath(common_drives[d] \o ":/")
         IN  <<PathJoin(root, common_names[n]),
               PathJoin(PathJoin(root, "DevelopSoftware"), common_names[n])>>
             \o DriveDirs(d, n + 1)

DriveDirsAll == DriveDirs(1, 1)

\* The six conventional install directories under the two Program Files.
ConventionalOf(pf, pf86) ==
    <<PathJoin(pf, "GTK3-Runtime Win64"), PathJoin(pf86, "GTK3-Runtime Win64"),
      PathJoin(pf, "GTK3-Runtime Win32"), PathJoin(pf86, "GTK3-Runtime Win32"),
      PathJoin(pf, "GTK3-Runtime"), PathJoin(pf86, "GTK3-Runtime")>>

DefaultProgramFiles == "C:\\\\Program Files"
DefaultProgramFilesX86 == "C:\\\\Program Files (x86)"
ConventionalStd == ConventionalOf(ProgFiles, DefaultProgramFilesX86)

\* The strings every host hands to _add_candidate.
KnownKeys ==
    Elems(DriveDirsAll) \cup Elems(ConventionalStd) \cup Elems(AllDirs)
      \cup {AliasRoot, DefaultProgramFilesX86, "gtk\\bin", "C:\\my",
            "c:\\program files\\gtk3-runtime win64",
            "c:\\program files\\gtk3-runtime win64\\bin"}

\* PathFacts of the known strings, the directory of each lower-case spelling
\* and the two constant lists of default_dirs, computed once when the process
\* starts and never changed; PathFacts of any other string is computed when it
\* is met.
PathTable ==
    [facts |-> [s \in KnownKeys |-> PathFacts(s)],
     byLower |-> [l \in {Lower(d) : d \in Elems(AllDirs)} |->
                     CHOOSE d \in Elems(AllDirs) : Lower(d) = l],
     drive |-> DriveDirsAll, conventional |-> ConventionalStd]

FactsOf(s) ==
    IF s \in DOMAIN pathTable.facts THEN pathTable.facts[s] ELSE PathFacts(s)

\* ------------------------------------------------------------ files
\* What a path is: absent, a directory nobody may stat ("denied": stat fails
\* with a permission error), or a directory with the files of FilesOf.
Kinds == {"absent", "denied", "empty", "pango", "alt", "libonly"}

FilesOf(kind) ==
    CASE kind = "pango" -> {"pango-1.0-0.dll", "gobject-2.0-0.dll",
                            "libpango-1.0.dylib", "libpango-1.0.so.0"}
      [] kind = "alt" -> {"PangoCairo-1.0-0.DLL"}
      [] kind = "libonly" -> {"libpango-1.0-0.dll"}
      [] OTHER -> {}

\* The kind of the Windows path whose lower-case spelling is lp (Windows file
\* names compare ignoring case).
KindOfLower(f, lp) ==
    IF lp \in DOMAIN pathTable.byLower THEN f[pathTable.byLower[lp]]
    ELSE "absent"

\* The kind of the path p on the filesystem f; POSIX names compare exactly.
KindOf(f, sys, p) ==
    IF sys = "Windows" THEN KindOfLower(f, FactsOf(p).lower)
    ELSE IF p \in Elems(AllDirs) THEN f[p] ELSE "absent"

\* "yes", "no", or "raise" when stat fails with an error pathlib does not
\* swallow (PermissionError).
StatOf(k) ==
    IF k = "denied" THEN "raise" ELSE IF k = "absent" THEN "no" ELSE "yes"

\* Path.exists(); Path.is_dir() is the same, every modelled path that exists
\* being a directory.
Exists(f, sys, p) == StatOf(KindOf(f, sys, p))

\* ------------------------------------------------------------ resolve and glob
\* str(Path.resolve()) of the path p whose lower-case spelling is lp:
\* resolve() gives the on-disk spelling of an existing path and leaves a path
\* that does not exist, or cannot be examined, as it is (non-strict).
Resolve(f, p, lp) ==
    IF KindOfLower(f, lp) \notin {"absent", "denied"}
    THEN pathTable.byLower[lp]
    ELSE p

\* str(Path.resolve()).lower()
ResolvedKey(f, p, lp) == FactsOf(Resolve(f, p, lp)).lower

\* fnmatch of a file name against "pango*-1.0-*.dll" (case-insensitive on
\* Windows).
MatchesPangoDll(name) ==
    LET n == Lower(name)
    IN  /\ StartsWith("pango", n)
        /\ EndsWith(".dll", n)
        /\ \E i \in 6..(Len(n) - 8) : SubSeq(n, i, i + 4) = "-1.0-"

\* any(path.glob("pango*-1.0-*.dll"))
GlobPangoDll(f, p) ==
    \E name \in FilesOf(KindOf(f, "Windows", p)) : MatchesPangoDll(name)

\* (path / "pango-1.0-0.dll").exists()
HasPangoDllFile(f, p) ==
    \E name \in FilesOf(KindOf(f, "Windows", p)) :
        Lower(name) = "pango-1.0-0.dll"

\* root_path.glob("GTK*"): the children of the directory whose lower-case
\* spelling is lroot whose name starts with GTK (ignoring case), in directory
\* order.
GlobGtk(f, lroot) ==
    LET IsChild(d) ==
            /\ f[d] # "absent"
            /\ pathTable.facts[d].parent = lroot
            /\ StartsWith("gtk", pathTable.facts[d].name)
    IN  SelectSeq(AllDirs, IsChild)

\* ------------------------------------------------------------ _ensure_windows_gtk_paths
\* The result of a call that may raise: ret is the returned value, env and dll
\* the environment and the loader's registered directories after the call.
\* cands is the local list candidates when the call ends (Windows only).
Raised(e, dll) ==
    [raised |-> TRUE, ret |-> None, env |-> e, dll |-> dll, cands |-> <<>>]
Returned(r, e, dll, cands) ==
    [raised |-> FALSE, ret |-> r, env |-> e, dll |-> dll, cands |-> cands]

\* One turn of the loop over (p, p / "bin"): key is
\* str(maybe.resolve()).lower(), ex is maybe.exists().
AddMaybeKey(st, maybe, key, ex) ==
    IF st.raised THEN st
    ELSE IF ex = "raise" THEN [st EXCEPT !.raised = TRUE]
    ELSE IF ex = "yes" /\ key \notin st.seen
         THEN [st EXCEPT !.seen = @ \cup {key}, !.cands = Append(@, maybe)]
         ELSE st

AddMaybe(f, st, maybe, lmaybe) ==
    AddMaybeKey(st, maybe, ResolvedKey(f, maybe, lmaybe),
                StatOf(KindOfLower(f, lmaybe)))

\* The body of _add_candidate for p = x.p: isdir is p.is_dir(), key is
\* str(p.resolve()).lower().
AddPath(f, st, x, isdir, key) ==
    IF isdir = "raise" THEN [st EXCEPT !.raised = TRUE]
    ELSE IF isdir = "yes" /\ x.name = "bin"
         THEN IF key \notin st.seen
              THEN [st EXCEPT !.seen = @ \cup {key}, !.cands = Append(@, x.p)]
              ELSE st
         ELSE AddMaybe(f, AddMaybe(f, st, x.p, x.lower), x.bin, x.binlower)

AddFacts(f, st, x) ==
    AddPath(f, st, x, StatOf(KindOfLower(f, x.lower)),
            ResolvedKey(f, x.p, x.lower))

\* _add_candidate(path_like), path_like an optional string; st carries the
\* closure's candidates and seen, and whether a filesystem call has raised.
AddCandidate(f, st, path_like) ==
    IF st.raised \/ IsNone(path_like) THEN st
    ELSE IF path_like[1] = "" THEN st
    ELSE AddFacts(f, st, FactsOf(path_like[1]))

RECURSIVE AddCandidates(_, _, _)
\* The calls of _add_candidate in order; the first that raises ends them.
AddCandidates(f, st, path_likes) ==
    IF st.raised \/ path_likes = <<>> THEN st
    ELSE AddCandidates(f, AddCandidate(f, st, Head(path_likes)),
                       Tail(path_likes))

OverrideVars ==
    <<"GTK3_RUNTIME_PATH", "GTK_RUNTIME_PATH", "GTK_BIN_PATH", "GTK_BIN_DIR",
      "GTK_PATH">>

program_files(e) == EnvGetOr(e, "ProgramFiles", DefaultProgramFiles)
program_files_x86(e) == EnvGetOr(e, "ProgramFiles(x86)", DefaultProgramFilesX86)

ConventionalDirs(e) ==
    IF program_files(e) = ProgFiles /\ program_files_x86(e) = DefaultProgramFilesX86
    THEN pathTable.conventional
    ELSE ConventionalOf(program_files(e), program_files_x86(e))

\* The GTK* children of the two Program Files directories; raised when
\* root_path.exists() raises.
GlobbedUnder(f, root, ex) ==
    [raised |-> ex = "raise",
     dirs |-> IF ex = "yes" THEN GlobGtk(f, root.lower) ELSE <<>>]

GlobbedRoot(f, root) == GlobbedUnder(f, root, StatOf(KindOfLower(f, root.lower)))

GlobbedBoth(g1, g2) ==
    [raised |-> g1.raised \/ g2.raised,
     dirs |-> IF g1.raised THEN <<>> ELSE g1.dirs \o g2.dirs]

GlobbedDirs(e, f) ==
    GlobbedBoth(GlobbedRoot(f, FactsOf(program_files(e))),
                GlobbedRoot(f, FactsOf(program_files_x86(e))))

\* default_dirs, in the order the code appends them; globbed is the result
\* of the scan of the two Program Files directories.
DefaultDirs(e, globbed) ==
    ConventionalDirs(e) \o pathTable.drive \o globbed

HintsGtk(entry) ==
    entry # "" /\ (Contains("gtk", Lower(entry)) \/ Contains("pango", Lower(entry)))

\* The PATH entries that hint at GTK or Pango.
PathHints(e) == SelectSeq(Split(EnvGetOr(e, "PATH", ""), ";"), HintsGtk)

Opt(seq) == [i \in 1..Len(seq) |-> Some(seq[i])]

\* Everything handed to _add_candidate, in order.
CandidateInputs(e, globbed) ==
    [i \in 1..Len(OverrideVars) |-> EnvGet(e, OverrideVars[i])]
    \o Opt(DefaultDirs(e, globbed)) \o Opt(PathHints(e))

\* The calls of _add_candidate, given the scan g of Program Files.  Nothing
\* is changed before the validation loop, so a scan that raises ends the call
\* as a raising _add_candidate does, whichever comes first.
CollectAfter(e, f, g) ==
    IF g.raised THEN [raised |-> TRUE, cands |-> <<>>, seen |-> {}]
    ELSE AddCandidates(f, [raised |-> FALSE, cands |-> <<>>, seen |-> {}],
                       CandidateInputs(e, g.dirs))

\* candidates after collection, or raised.
CollectCandidates(e, f) == CollectAfter(e, f, GlobbedDirs(e, f))

\* The test a candidate passes before it is accepted.
Validates(f, path) == GlobPangoDll(f, path) \/ HasPangoDllFile(f, path)

RECURSIVE FirstValid(_, _)
\* One turn of the validation loop; ex is path.exists() of the first
\* candidate.
ValidOrNext(f, cands, ex) ==
    IF ex = "raise" THEN [raised |-> TRUE, ret |-> None]
    ELSE IF ex = "yes" /\ Validates(f, Head(cands))
         THEN [raised |-> FALSE, ret |-> Some(Head(cands))]
         ELSE FirstValid(f, Tail(cands))

\* The first candidate that exists and validates: None when there is none.
FirstValid(f, cands) ==
    IF cands = <<>> THEN [raised |-> FALSE, ret |-> None]
    ELSE ValidOrNext(f, cands, Exists(f, "Windows", Head(cands)))

\* PATH after the accepted path is put in front of it, unless it is one of
\* PATH's ";"-separated entries already.
WithPath(e, path) ==
    LET current_path == EnvGetOr(e, "PATH", "")
    IN  IF path \notin Elems(Split(current_path, ";"))
        THEN [e EXCEPT !["PATH"] = Some(path \o ";" \o current_path)]
        ELSE e

\* _ensure_windows_gtk_paths().  reg: whether os.add_dll_directory exists and
\* accepts the path (its failure is swallowed).
\* Lines 152-163 for the outcome v of the validation loop.
Accept(e, dll, reg, cands, v) ==
    IF v.raised THEN Raised(e, dll)
    ELSE IF IsNone(v.ret) THEN Returned(None, e, dll, cands)
    ELSE Returned(v.ret, WithPath(e, v.ret[1]),
                  IF reg THEN dll \cup {v.ret[1]} ELSE dll, cands)

\* Lines 146-165 for the outcome c of the collection.
ValidateCollected(e, f, dll, reg, c) ==
    IF c.raised THEN Raised(e, dll)
    ELSE Accept(e, dll, reg, c.cands, FirstValid(f, c.cands))

EnsureWindowsGtkPaths(sys, e, f, dll, reg) ==
    IF sys # "Windows" THEN Returned(None, e, dll, <<>>)
    ELSE ValidateCollected(e, f, dll, reg, CollectCandidates(e, f))

\* ------------------------------------------------------------ prepare_pango_environment
DarwinCandidates == <<Homebrew, UsrLocal>>

\* The macOS branch: the candidates that exist and are no entry of
\* DYLD_LIBRARY_PATH go in front of it.
\* Lines 186-189 for the list added; value is the joined string.
DarwinSet(e, dll, added, value) ==
    IF added # <<>>
    THEN Returned(Some(value), [e EXCEPT !["DYLD_LIBRARY_PATH"] = Some(value)],
                  dll, <<>>)
    ELSE Returned(None, e, dll, <<>>)

DarwinAdded(e, dll, current, added) ==
    DarwinSet(e, dll, added,
              Join(added \o (IF current # "" THEN <<current>> ELSE <<>>), ":"))

\* The loop of lines 183-185; entries is current.split(":").
DarwinLoop(e, f, dll, current, entries) ==
    LET Qualifies(c) == StatOf(f[c]) = "yes" /\ c \notin entries
    IN  \* c.exists() is evaluated for every candidate
        IF \E i \in 1..Len(DarwinCandidates) :
               StatOf(f[DarwinCandidates[i]]) = "raise"
        THEN Raised(e, dll)
        ELSE DarwinAdded(e, dll, current, SelectSeq(DarwinCandidates, Qualifies))

PrepareDarwin(e, f, dll) ==
    DarwinLoop(e, f, dll, EnvGetOr(e, "DYLD_LIBRARY_PATH", ""),
               Elems(Split(EnvGetOr(e, "DYLD_LIBRARY_PATH", ""), ":")))

\* prepare_pango_environment()
PreparePangoEnvironment(sys, e, f, dll, reg) ==
    IF sys = "Windows" THEN EnsureWindowsGtkPaths(sys, e, f, dll, reg)
    ELSE IF sys = "Darwin" THEN PrepareDarwin(e, f, dll)
    ELSE Returned(None, e, dll, <<>>)

\* ------------------------------------------------------------ _probe_native_libs
\* (key, name variants) in the order the code lists them.
Targets(sys) ==
    IF sys = "Windows"
    THEN << <<"pango", <<"pango-1.0-0">>>>,
            <<"gobject", <<"gobject-2.0-0">>>>,
            <<"gdk-pixbuf", <<"gdk_pixbuf-2.0-0">>>>,
            <<"cairo", <<"cairo-2">>>> >>
    ELSE << <<"pango", <<"pango-1.0">>>>,
            <<"gobject", <<"gobject-2.0">>>>,
            <<"gdk-pixbuf", <<"gdk_pixbuf-2.0">>>>,
            <<"cairo", <<"cairo", "cairo-2">>>> >>

\* A test that wants every name variant resolved.
FoundAll(variants, res) == \A i \in 1..Len(variants) : variants[i] \in res

\* any(ctypes_util.find_library(v) for v in variants); res is the set of the
\* names find_library resolves.
Found(variants, res) == \E i \in 1..Len(variants) : variants[i] \in res

\* _probe_native_libs(): the keys not found, in order.
ProbeNativeLibs(sys, res) ==
    LET NotFound(t) == ~Found(t[2], res)
        miss == SelectSeq(Targets(sys), NotFound)
    IN  [i \in 1..Len(miss) |-> miss[i][1]]

\* ------------------------------------------------------------ the binding
\* The file names under which the loader finds the text-layout library.
LoadableNames ==
    {"pango-1.0-0.dll", "libpango-1.0-0.dll", "libpango-1.0.dylib",
     "libpango-1.0.so.0"}

\* The directories the native loader searches.
SearchScope(sys, e, dll) ==
    IF sys = "Windows" THEN Elems(Split(EnvGetOr(e, "PATH", ""), ";")) \cup dll
    ELSE IF sys = "Darwin"
         THEN Elems(Split(EnvGetOr(e, "DYLD_LIBRARY_PATH", ""), ":")) \cup {UsrLib}
         ELSE {UsrLib}

PangoLoads(sys, e, f, dll) ==
    \E d \in SearchScope(sys, e, dll) :
        LET k == IF sys = "Windows" THEN KindOfLower(f, FactsOf(d).lower)
                 ELSE KindOf(f, sys, d)
        IN  \E name \in FilesOf(k) : Lower(name) \in LoadableNames

\* What "from weasyprint import HTML", "from weasyprint.text.ffi import ffi,
\* pango" and pango.pango_version() do: a function of the installed binding,
\* the installed libraries and the search path at the moment of the attempt.
LoadOutcome(sys, e, f, dll, ldr) ==
    IF ldr.binding = "absent"
    THEN [kind |-> "ImportError", text |-> "No module named 'weasyprint'"]
    ELSE IF ldr.binding = "broken" THEN [kind |-> "Other", text |-> ldr.text]
    ELSE IF PangoLoads(sys, e, f, dll) THEN [kind |-> "ok", text |-> ""]
    ELSE [kind |-> "OSError", text |-> ldr.text]

\* ------------------------------------------------------------ messages
BoxTop == "+==============================+\n"
BoxBottom == "+==============================+"
BoxHead ==
    "|  (!) PDF export dependencies missing  |\n|  |\n"
    \o "|  PDF export will be unavailable (other features are not affected)  |\n|  |\n"
BoxTail ==
    "|  |\n|  Full documentation: README.md in the root, step 2 of 'run from source'  |\n"
ArchNote ==
    "|  If it is installed and still fails: check Python/GTK have the same bitness, reopen the terminal  |\n"
HintPrefix == "|  Tried to add the GTK path automatically: "
NoDefaultPath == "no default path found"
MissingPrefix == "|  Dependencies not recognised: "
SuccessMessage == "OK Pango dependency check passed, PDF export is available"
NotInstalledMessage == "(!) WeasyPrint is not installed\nFix: pip install weasyprint"
LoadFailedPrefix == "(!) PDF dependency load failed: "
LoadFailedMiddle == "; missing/not recognised: "
Unknown == "unknown"
CheckFailedPrefix == "(!) PDF dependency check failed: "

\* _get_platform_specific_instructions()
PlatformInstructions(sys) ==
    IF sys = "Darwin"
    THEN "|  macOS:  |\n|  1. brew install pango gdk-pixbuf libffi  |\n"
         \o "|  2. export DYLD_LIBRARY_PATH=/opt/homebrew/lib:$DYLD_LIBRARY_PATH  |\n"
         \o "|  3. echo 'export DYLD_LIBRARY_PATH=...' >> ~/.zshrc  |\n"
    ELSE IF sys = "Linux"
    THEN "|  Linux:  |\n|  sudo apt-get install libpango-1.0-0 libpangoft2-1.0-0 libgdk-pixbuf2.0-0 libffi-dev libcairo2  |\n"
         \o "|  sudo yum install pango gdk-pixbuf2 libffi-devel cairo  |\n"
         \o "|  export LD_LIBRARY_PATH=/usr/local/lib:$LD_LIBRARY_PATH; sudo ldconfig  |\n"
    ELSE IF sys = "Windows"
    THEN "|  Windows:  |\n|  1. Install GTK3 Runtime: https://github.com/tschoonj/GTK-for-Windows-Runtime-Environment-Installer/releases  |\n"
         \o "|  2. Add bin of the GTK install directory to PATH: set PATH=C:\\Program Files\\GTK3-Runtime Win64\\bin;%PATH%  |\n"
         \o "|  3. python -m ReportEngine.utils.dependency_check  |\n"
    ELSE "|  See README.md for the installation on your system  |\n"

PathDisplayWidth == 38
PathDisplayKeep == 35
MissingWidth == 46

\* path_display: the added path, or the "not found" text, cut to the box.
PathDisplay(added_path) ==
    LET d == IF IsNone(added_path) THEN NoDefaultPath ELSE added_path[1]
    IN  IF Len(d) > PathDisplayWidth
        THEN SubSeq(d, 1, PathDisplayKeep) \o "..."
        ELSE d

WindowsHint(sys, added_path) ==
    IF sys = "Windows"
    THEN HintPrefix \o PadRight(PathDisplay(added_path), PathDisplayWidth) \o "|\n"
    ELSE ""

MissingNote(missing) ==
    IF missing # <<>>
    THEN MissingPrefix \o PadRight(Join(missing, ", "), MissingWidth) \o "|\n"
    ELSE ""

\* A test that looks for the three words as they are spelt, case and all.
RecognisedExact(error_msg) ==
    Contains("gobject", error_msg) \/ Contains("pango", error_msg)
      \/ Contains("gdk", error_msg)

\* The test on the loader error's text that selects the boxed diagnostic.
Recognised(error_msg) ==
    LET m == Lower(error_msg)
    IN  Contains("gobject", m) \/ Contains("pango", m) \/ Contains("gdk", m)

BoxedMessage(sys, added_path, missing) ==
    BoxTop \o BoxHead \o WindowsHint(sys, added_path)
      \o (IF sys = "Windows" THEN ArchNote ELSE "")
      \o MissingNote(missing) \o PlatformInstructions(sys) \o BoxTail \o BoxBottom

ShortMessage(error_msg, missing) ==
    LoadFailedPrefix \o error_msg \o LoadFailedMiddle
      \o (IF missing # <<>> THEN Join(missing, ", ") ELSE Unknown)

\* A verdict that lets the list of missing libraries gate availability.
VerdictGated(sys, out, added_path, missing) ==
    IF out.kind = "ok" /\ missing = <<>>
    THEN [available |-> TRUE, message |-> SuccessMessage]
    ELSE [available |-> FALSE, message |-> CheckFailedPrefix \o out.text]

\* The pair check_pango_available returns for an outcome of the try block:
\* the except clauses in their order (OSError, ImportError, Exception).
Verdict(sys, out, added_path, missing) ==
    IF out.kind = "ok" THEN [available |-> TRUE, message |-> SuccessMessage]
    ELSE IF out.kind = "OSError"
    THEN IF Recognised(out.text)
         THEN [available |-> FALSE,
               message |-> BoxedMessage(sys, added_path, missing)]
         ELSE [available |-> FALSE,
               message |-> ShortMessage(out.text, missing)]
    ELSE IF out.kind = "ImportError"
    THEN [available |-> FALSE, message |-> NotInstalledMessage]
    ELSE [available |-> FALSE, message |-> CheckFailedPrefix \o out.text]

\* ------------------------------------------------------------ check_pango_available
\* What the call gives its caller: v is the pair the try block or one of its
\* except clauses returns.
CheckReturned(prep, missing, out, v) ==
    [raised |-> FALSE, available |-> v.available, message |-> v.message,
     outcome |-> out.kind, text |-> out.text, added_path |-> prep.ret,
     missing |-> missing, env |-> prep.env, dll |-> prep.dll,
     cands |-> prep.cands]

\* Lines 235-288 after the preparation prep and the probe: an exception of
\* the preparation has left the function before the try block.
CheckPrepared(sys, prep, missing, out) ==
    IF prep.raised
    THEN [raised |-> TRUE, available |-> FALSE, message |-> "",
          outcome |-> "none", text |-> "", added_path |-> None,
          missing |-> <<>>, env |-> prep.env, dll |-> prep.dll, cands |-> <<>>]
    ELSE CheckReturned(prep, missing, out,
                       Verdict(sys, out, prep.ret, missing))

\* A check that attempts the load under the environment it was called in,
\* before the preparation.
CheckBeforePrepare(sys, e, f, dll, reg, ldr, res) ==
    CheckPrepared(sys, PreparePangoEnvironment(sys, e, f, dll, reg),
                  ProbeNativeLibs(sys, res), LoadOutcome(sys, e, f, dll, ldr))

\* The whole call: path preparation and probing outside the try block, then
\* the load attempt under the environment the preparation left.
CheckLoaded(sys, f, ldr, prep, missing) ==
    CheckPrepared(sys, prep, missing,
                  LoadOutcome(sys, prep.env, f, prep.dll, ldr))

CheckPangoAvailable(sys, e, f, dll, reg, ldr, res) ==
    CheckLoaded(sys, f, ldr, PreparePangoEnvironment(sys, e, f, dll, reg),
                ProbeNativeLibs(sys, res))

\* ------------------------------------------------------------ hosts
\* The texts a loader-level error carries.
ErrTexts ==
    {"cannot load library 'gobject-2.0-0': error 0x7e",
     "dlopen() failed to load a library: libPANGO-1.0",
     "cannot load library: error 0x7e"}

Loaders ==
    {[binding |-> "absent", text |-> ""],
     [binding |-> "broken", text |-> "pango: symbol lookup failed"]}
      \cup {[binding |-> "ok", text |-> t] : t \in ErrTexts}

\* Outcomes of find_library: everything, nothing, everything but one name.
Resolvables(sys) ==
    IF sys = "Windows"
    THEN {{"pango-1.0-0", "gobject-2.0-0", "gdk_pixbuf-2.0-0", "cairo-2"},
          {"gobject-2.0-0"}}
    ELSE {{"pango-1.0", "gobject-2.0", "gdk_pixbuf-2.0", "cairo"}, {},
          {"pango-1.0", "gdk_pixbuf-2.0", "cairo-2"}}

AllNames(sys) ==
    IF sys = "Windows"
    THEN {"pango-1.0-0", "gobject-2.0-0", "gdk_pixbuf-2.0-0", "cairo-2"}
    ELSE {"pango-1.0", "gobject-2.0", "gdk_pixbuf-2.0", "cairo", "cairo-2"}

NoEnv == [v \in EnvVars |-> None]

\* A Windows host: the GTK runtime under Program Files (absent, unreadable,
\* without bin, with an empty bin, with Pango in bin, with only PangoCairo in
\* bin), a GTK* directory beside it, a directory whose name holds a ";", and
\* a directory on PATH that holds libpango under its MSYS2 name.
WindowsFs ==
    {[d \in Elems(AllDirs) |->
        CASE d \in {ProgFiles, ProgFilesX86, WinDir} -> "empty"
          [] d = GtkRoot -> g[1]
          [] d = GtkBin -> g[2]
          [] d = GtkSharp -> sharp
          [] d = SemiBin -> semi
          [] d = ToolsPango -> tools
          [] OTHER -> "absent"] :
        g \in {<<"absent", "absent">>, <<"denied", "denied">>,
               <<"empty", "absent">>, <<"empty", "empty">>,
               <<"empty", "pango">>, <<"empty", "alt">>},
        sharp \in {"absent", "pango"},
        semi \in {"absent", "pango"},
        tools \in {"absent", "libonly"}}

WindowsEnv ==
    {[NoEnv EXCEPT !["ProgramFiles"] = Some(ProgFiles),
                   !["GTK3_RUNTIME_PATH"] = o[1],
                   !["GTK_BIN_PATH"] = Some(""),
                   !["GTK_PATH"] = o[2],
                   !["PATH"] = Some(path)] :
        o \in {<<None, None>>, <<Some(AliasRoot), None>>,
               <<None, Some(SemiBin)>>, <<Some(AliasRoot), Some(SemiBin)>>},
        path \in {PathPlain, PathWithTools, PathWithGtk}}

DarwinFs ==
    {[d \in Elems(AllDirs) |->
        CASE d = Homebrew -> h
          [] d = UsrLocal -> u
          [] d = CustomLib -> "pango"
          [] d = UsrLib -> "empty"
          [] OTHER -> "absent"] :
        h \in {"absent", "empty", "pango", "denied"},
        u \in {"absent", "empty", "pango", "denied"}}

DarwinEnv ==
    {[NoEnv EXCEPT !["PATH"] = Some("/usr/bin"), !["DYLD_LIBRARY_PATH"] = v] :
        v \in {None, Some(""), Some(Homebrew), Some(DyldCustom)}}

OtherFs ==
    {[d \in Elems(AllDirs) |->
        CASE d = UsrLib -> k [] d = UsrLocal -> "empty" [] OTHER -> "absent"] :
        k \in {"empty", "pango"}}

OtherEnv ==
    {[NoEnv EXCEPT !["PATH"] = Some("/usr/bin"), !["DYLD_LIBRARY_PATH"] = v] :
        v \in {None, Some(UsrLocal)}}

\* A Windows host names the tools directory on PATH, and the directory with
\* the ";" in GTK_PATH, exactly when it has them.
Consistent(sys, f, e) ==
    sys = "Windows" =>
        /\ e["PATH"] = Some(PathWithTools) <=> f[ToolsPango] # "absent"
        /\ e["GTK_PATH"] = Some(SemiBin) <=> f[SemiBin] # "absent"

NoCall ==
    [fn |-> "none", raised |-> FALSE, ret |-> None, available |-> FALSE,
     message |-> "", outcome |-> "none", text |-> "", missing |-> <<>>,
     cands |-> <<>>, envBefore |-> NoEnv, dllBefore |-> {}]

\* ------------------------------------------------------------ the process
Init ==
    /\ system \in Systems
    /\ fs \in (IF system = "Windows" THEN WindowsFs
               ELSE IF system = "Darwin" THEN DarwinFs ELSE OtherFs)
    /\ env \in (IF system = "Windows" THEN WindowsEnv
                ELSE IF system = "Darwin" THEN DarwinEnv ELSE OtherEnv)
    /\ Consistent(system, fs, env)
    /\ dllDirs = {}
    /\ loader \in Loaders
    /\ registers \in (IF system = "Windows" THEN BOOLEAN ELSE {FALSE})
    /\ resolvable \in Resolvables(system)
    /\ history = <<>>
    /\ last = NoCall
    /\ pathTable = PathTable

Entry(fn, raised, available, e) ==
    [fn |-> fn, raised |-> raised, available |-> available,
     path |-> e["PATH"], dyld |-> e["DYLD_LIBRARY_PATH"]]

\* A call of check_pango_available().
CallCheck ==
    /\ Len(history) < MaxCalls
    /\ \E r \in {CheckPangoAvailable(system, env, fs, dllDirs, registers,
                                      loader, resolvable)} :
           /\ env' = r.env
           /\ dllDirs' = r.dll
           /\ history' = Append(history, Entry("check", r.raised, r.available, r.env))
           /\ last' = [fn |-> "check", raised |-> r.raised, ret |-> r.added_path,
                       available |-> r.available, message |-> r.message,
                       outcome |-> r.outcome, text |-> r.text,
                       missing |-> r.missing, cands |-> r.cands,
                       envBefore |-> env, dllBefore |-> dllDirs]
    /\ UNCHANGED <<system, fs, loader, registers, resolvable, pathTable>>

\* A call of prepare_pango_environment() on its own.
CallPrepare ==
    /\ Len(history) < MaxCalls
    /\ \E r \in {PreparePangoEnvironment(system, env, fs, dllDirs, registers)} :
           /\ env' = r.env
           /\ dllDirs' = r.dll
           /\ history' = Append(history, Entry("prepare", r.raised, FALSE, r.env))
           /\ last' = [NoCall EXCEPT !.fn = "prepare", !.raised = r.raised,
                                     !.ret = r.ret, !.cands = r.cands,
                                     !.envBefore = env, !.dllBefore = dllDirs]
    /\ UNCHANGED <<system, fs, loader, registers, resolvable, pathTable>>

Next == CallCheck \/ CallPrepare

Spec == Init /\ [][Next]_vars

\* ------------------------------------------------------------ the prober alone
\* Every outcome of find_library on a host where nothing else matters.
InitProbe ==
    /\ system \in Systems
    /\ fs \in OtherFs
    /\ env = NoEnv
    /\ dllDirs = {}
    /\ loader = [binding |-> "absent", text |-> ""]
    /\ registers = FALSE
    /\ resolvable \in SUBSET AllNames(system)
    /\ history = <<>>
    /\ last = NoCall
    /\ pathTable = PathTable

\* A call of _probe_native_libs() on its own.
CallProbe ==
    /\ Len(history) < MaxCalls
    /\ history' = Append(history, Entry("probe", FALSE, FALSE, env))
    /\ last' = [NoCall EXCEPT !.fn = "probe",
                              !.missing = ProbeNativeLibs(system, resolvable),
                              !.envBefore = env, !.dllBefore = dllDirs]
    /\ UNCHANGED <<system, fs, env, dllDirs, loader, registers, resolvable,
                   pathTable>>

NextProbe == CallProbe

SpecProbe == InitProbe /\ [][NextProbe]_vars

\* ------------------------------------------------------------ properties
\* C1: check_pango_available never raises: every call ends by returning a
\* pair (boolean, message), and the boolean is false whenever the load of the
\* binding did not succeed.
C1_CheckNeverRaises ==
    last.fn = "check" =>
        /\ ~last.raised
        /\ last.available \in BOOLEAN
        /\ (last.outcome # "ok" => ~last.available)

\* C2: the first element check_pango_available returns is true exactly when
\* the import of the binding and the version query succeed under the
\* environment the call leaves, whatever the list of missing libraries and
\* whatever prepare_pango_environment returned.
C2_AvailableIffLoads ==
    (last.fn = "check" /\ ~last.raised) =>
        (last.available <=>
            LoadOutcome(system, env, fs, dllDirs, loader).kind = "ok")

\* A check that found Pango usable although the prober found nothing and the
\* preparation added no path.
C2_Witness ==
    /\ last.fn = "check"
    /\ ~last.raised
    /\ last.available
    /\ Len(last.missing) = 4
    /\ IsNone(last.ret)

\* C3: prepare_pango_environment returns normally on every platform,
\* whichever filesystem operations fail.
C3_PrepareNeverRaises == last.fn = "prepare" => ~last.raised

\* C4: _probe_native_libs returns exactly the keys, in the order pango,
\* gobject, gdk-pixbuf, cairo, none of whose name variants resolves; on a
\* platform other than Windows cairo is found under either of its two names.
C4_ProbeExact ==
    last.fn = "probe" =>
        LET win == system = "Windows"
            Has(name) == name \in resolvable
            Missing(key) ==
                CASE key = "pango" ->
                       ~Has(IF win THEN "pango-1.0-0" ELSE "pango-1.0")
                  [] key = "gobject" ->
                       ~Has(IF win THEN "gobject-2.0-0" ELSE "gobject-2.0")
                  [] key = "gdk-pixbuf" ->
                       ~Has(IF win THEN "gdk_pixbuf-2.0-0" ELSE "gdk_pixbuf-2.0")
                  [] key = "cairo" ->
                       IF win THEN ~Has("cairo-2")
                       ELSE ~Has("cairo") /\ ~Has("cairo-2")
        IN  last.missing =
                SelectSeq(<<"pango", "gobject", "gdk-pixbuf", "cairo">>, Missing)

\* A probe, off Windows, that found cairo under its second name only and
\* reported the two keys that did not resolve.
C4_Witness ==
    /\ last.fn = "probe"
    /\ system = "Linux"
    /\ resolvable = {"gobject-2.0", "cairo-2"}
    /\ last.missing = <<"pango", "gdk-pixbuf">>

\* C5: any two calls of check_pango_available that return in one process
\* return the same available value.
C5_SameVerdict ==
    \A i, j \in 1..Len(history) :
        (/\ history[i].fn = "check" /\ ~history[i].raised
         /\ history[j].fn = "check" /\ ~history[j].raised)
            => history[i].available = history[j].available

\* Two checks on Windows: the first put the GTK bin directory in front of
\* PATH and found Pango usable, and so did the second.
C5_Witness ==
    /\ Len(history) = 2
    /\ history[1].fn = "check"
    /\ history[2].fn = "check"
    /\ history[1].path = Some(GtkBin \o ";" \o PathPlain)
    /\ history[1].available
    /\ history[2].available
    /\ dllDirs = {}

\* C6: on Windows, with the binding installed and no loadable Pango, the
\* check returns false and the boxed diagnostic, which names GTK and has a
\* line telling the path that was added (or that none was found), whatever
\* the text of the loader's error.
C6_WindowsBoxedAlways ==
    (/\ last.fn = "check"
     /\ system = "Windows"
     /\ loader.binding = "ok"
     /\ ~PangoLoads(system, env, fs, dllDirs)) =>
        LET m == last.message
            shown == IF IsNone(last.ret) THEN NoDefaultPath
                     ELSE IF Len(last.ret[1]) > 38
                          THEN SubSeq(last.ret[1], 1, 35) \o "..."
                          ELSE last.ret[1]
        IN  /\ ~last.raised
            /\ ~last.available
            /\ StartsWith(BoxTop, m)
            /\ EndsWith(BoxBottom, m)
            /\ Contains("GTK", m)
            /\ Contains(HintPrefix \o shown, m)

\* C7: on macOS prepare_pango_environment puts each of /opt/homebrew/lib and
\* /usr/local/lib that exists and is no entry of DYLD_LIBRARY_PATH in front
\* of it, in that order, and returns the new value; when none qualifies it
\* returns None and changes nothing; off Windows and macOS it returns None
\* and changes nothing.
C7_DarwinPrepends ==
    (last.fn = "prepare" /\ system # "Windows") =>
        LET before == last.envBefore["DYLD_LIBRARY_PATH"]
            current == IF IsNone(before) THEN "" ELSE before[1]
            entries == Elems(Split(current, ":"))
            Qualifies(d) == fs[d] \in {"empty", "pango"} /\ d \notin entries
            front == (IF Qualifies(Homebrew) THEN Homebrew \o ":" ELSE "")
                     \o (IF Qualifies(UsrLocal) THEN UsrLocal \o ":" ELSE "")
            value == IF current = "" THEN SubSeq(front, 1, Len(front) - 1)
                     ELSE front \o current
        IN  /\ ~last.raised
            /\ IF system = "Darwin" /\ front # ""
               THEN /\ last.ret = Some(value)
                    /\ env = [last.envBefore EXCEPT
                                 !["DYLD_LIBRARY_PATH"] = Some(value)]
               ELSE /\ IsNone(last.ret)
                    /\ env = last.envBefore

\* C8: once the first call has completed, no later call changes PATH or
\* DYLD_LIBRARY_PATH.
C8_MutatedAtMostOnce ==
    \A j \in 2..Len(history) :
        /\ history[j].path = history[1].path
        /\ history[j].dyld = history[1].dyld

\* C9: the message of a failed check is decided by the class of the exception
\* the import and the version query raised: ImportError gives the short
\* message with "pip install weasyprint"; OSError whose text, ignoring case,
\* mentions pango, gobject or gdk gives the boxed diagnostic with the
\* platform's instructions and, when libraries are missing, a line listing
\* them; any other OSError gives one line with the error text and the missing
\* libraries; any other exception gives the generic message with its text.
\* The four forms exclude one another.
C9_MessageByClass ==
    (last.fn = "check" /\ ~last.raised /\ last.outcome # "ok") =>
        LET m == last.message
            listed == Join(last.missing, ", ")
            mentions == \E w \in {"pango", "gobject", "gdk"} :
                            Contains(w, Lower(last.text))
            form == CASE StartsWith(BoxTop, m) /\ EndsWith(BoxBottom, m) -> "boxed"
                      [] StartsWith(LoadFailedPrefix, m) -> "line"
                      [] StartsWith(CheckFailedPrefix, m) -> "generic"
                      [] Contains("pip install weasyprint", m) -> "install"
                      [] OTHER -> "none"
        IN  /\ ~last.available
            /\ last.outcome \in {"ImportError", "OSError", "Other"}
            /\ last.outcome = "ImportError" => form = "install"
            /\ (last.outcome = "OSError" /\ mentions) =>
                   /\ form = "boxed"
                   /\ Contains(PlatformInstructions(system), m)
                   /\ last.missing # <<>> => Contains(MissingPrefix \o listed, m)
            /\ (last.outcome = "OSError" /\ ~mentions) =>
                   /\ form = "line"
                   /\ ~Contains("\n", m)
                   /\ Contains(last.text, m)
                   /\ last.missing # <<>> => EndsWith(listed, m)
            /\ last.outcome = "Other" =>
                   /\ form = "generic"
                   /\ EndsWith(last.text, m)

\* A loader error that names the library in capitals, with libraries missing:
\* the boxed diagnostic, with the line that lists them.
C9_Witness ==
    /\ last.fn = "check"
    /\ last.outcome = "OSError"
    /\ last.text = "dlopen() failed to load a library: libPANGO-1.0"
    /\ last.missing = <<"gobject">>
    /\ StartsWith(BoxTop, last.message)
    /\ Contains(MissingPrefix \o "gobject", last.message)

\* C10: on Windows a call that returns gives the first candidate that exists
\* and holds a Pango DLL; after a return other than None the returned path is
\* an entry of PATH, put in front unless it was one already; after None PATH
\* is unchanged; no two candidates are equal ignoring case.
C10_FirstValidOnPath ==
    (last.fn = "prepare" /\ system = "Windows" /\ ~last.raised) =>
        LET Valid(c) == Exists(fs, "Windows", c) = "yes" /\ Validates(fs, c)
            valid == SelectSeq(last.cands, Valid)
            before == EnvGetOr(last.envBefore, "PATH", "")
            after == EnvGetOr(env, "PATH", "")
        IN  /\ last.ret = (IF valid = <<>> THEN None ELSE Some(valid[1]))
            /\ ~IsNone(last.ret) =>
                   /\ last.ret[1] \in Elems(Split(after, ";"))
                   /\ after = (IF last.ret[1] \in Elems(Split(before, ";"))
                               THEN before
                               ELSE last.ret[1] \o ";" \o before)
            /\ IsNone(last.ret) => env = last.envBefore
            /\ \A i, j \in 1..Len(last.cands) :
                   Lower(last.cands[i]) = Lower(last.cands[j]) => i = j

====
